---- MODULE Spec2Model ----
(***************************************************************************)
(* Model of python-microserver: a FastAPI application that discovers the   *)
(* tables of a relational database at startup and serves generic CRUD      *)
(* endpoints over them (main.py, models.py, schemas.py, database.py).      *)
(*                                                                         *)
(* Every endpoint is an `async def` whose database calls are synchronous,  *)
(* so a handler runs to completion without yielding: one action per        *)
(* handler, the whole handler in the action.                               *)
(*                                                                         *)
(* The database is the external collaborator.  It is modelled as a small   *)
(* catalog (four tables: one with a single-column primary key, one with a  *)
(* two-column primary key and a foreign key, one without primary key, one  *)
(* that is created while the server runs), committed rows per table, and   *)
(* a nondeterministic fault: a database round trip of the request may      *)
(* raise.  Path values and column values are compared by equality (the     *)
(* driver's coercion of the path string is not modelled); no column of the *)
(* catalog is binary.                                                      *)
(***************************************************************************)
EXTENDS Integers, Sequences, FiniteSets, TLC

\* ---------------------------------------------------------------- bounds
MaxRows == 2        \* rows a table holds at most
MaxId == 2          \* largest value the autoincrement counter hands out

\* ------------------------------------------------------ program constants
None == 0           \* Python's None / SQL NULL
SkipDefault == 0
SkipMin == 0
LimitDefault == 10
LimitMin == 1
LimitMax == 100

Vals == {1, 2}                      \* non-null column values used in requests
RecordIds == 1..MaxId               \* record ids used in request paths

\* ------------------------------------------------------------ the database
TableNames == {"products", "order_details", "audit_log", "shippers"}
BaseTables == {"products", "order_details", "audit_log"}

\* inspector.get_columns(table_name), names only
TableColumns(t) ==
    CASE t = "products" -> <<"id", "name">>
      [] t = "order_details" -> <<"order_id", "product_id">>
      [] t = "audit_log" -> <<"msg">>
      [] t = "shippers" -> <<"id", "name">>

\* inspector.get_pk_constraint(table_name)['constrained_columns']
TablePrimaryKey(t) ==
    CASE t = "products" -> <<"id">>
      [] t = "order_details" -> <<"order_id", "product_id">>
      [] t = "audit_log" -> <<>>
      [] t = "shippers" -> <<"id">>

\* inspector.get_foreign_keys(table_name)
TableForeignKeys(t) ==
    IF t = "order_details"
    THEN {[column |-> "product_id", referred_table |-> "products", referred_column |-> "id"]}
    ELSE {}

AutoIncrement(t) == t \in {"products", "shippers"}

Range(s) == {s[i] : i \in 1..Len(s)}
ColumnSet(t) == Range(TableColumns(t))

VARIABLES
    AVAILABLE_TABLES,   \* main.py global: the table list discovered at startup
    started,            \* the startup event has run
    startupFailed,      \* get_all_tables() raised during the startup event
    dbTables,           \* tables that exist in the database
    rows,               \* committed rows of every table, in storage order
    nextId,             \* autoincrement counter of every table
    req,                \* the request being answered
    resp,               \* its response: [status, body]
    dbLog               \* the database round trips the request made, in order

vars == <<AVAILABLE_TABLES, started, startupFailed, dbTables, rows, nextId, req, resp, dbLog>>


\* -------------------------------------------------------- database helpers
Min(a, b) == IF a < b THEN a ELSE b
Max(a, b) == IF a > b THEN a ELSE b

\* models.py get_all_tables: inspector.get_table_names(), in catalog order
TableOrder == <<"audit_log", "order_details", "products", "shippers">>
InDb(t) == t \in dbTables
get_all_tables == SelectSeq(TableOrder, InDb)

\* models.py get_model_class: automap maps only the reflected tables that have
\* a primary key; getattr(AutoBase.classes, table_name, None).  The handle is
\* {t}, and None is {}.
get_model_class(table_name) ==
    IF table_name \in dbTables /\ TablePrimaryKey(table_name) # <<>>
    THEN {table_name} ELSE {}

\* main.py get_table_columns / get_primary_keys
get_table_columns(table_name) == TableColumns(table_name)
get_primary_keys(table_name) == TablePrimaryKey(table_name)

\* Attributes an automap class has besides its columns (declarative's metadata).
ClassAttrs == {"metadata"}
hasattr(table_name, key) == key \in ColumnSet(table_name) \cup ClassAttrs

\* main.py serialize_row: getattr(row, col, None); None stays None, any other
\* (non-binary) value passes through.
serialize_row(row, columns) ==
    [col \in Range(columns) |->
        LET value == IF col \in DOMAIN row THEN row[col] ELSE None
        IN IF value = None THEN None ELSE value]

\* Primary-key value of a row, as a tuple.
KeyOf(t, row) == [i \in 1..Len(TablePrimaryKey(t)) |-> row[TablePrimaryKey(t)[i]]]

\* The constraints the database enforces when a transaction commits: primary
\* keys are non-null and unique, foreign keys refer to an existing row.
ConstraintsHold(db) ==
    /\ \A t \in TableNames :
         TablePrimaryKey(t) # <<>> =>
           /\ \A i \in 1..Len(db[t]) : \A c \in Range(TablePrimaryKey(t)) : db[t][i][c] # None
           /\ \A i, j \in 1..Len(db[t]) : KeyOf(t, db[t][i]) = KeyOf(t, db[t][j]) => i = j
    /\ \A t \in TableNames : \A fk \in TableForeignKeys(t) : \A i \in 1..Len(db[t]) :
         \/ db[t][i][fk.column] = None
         \/ \E j \in 1..Len(db[fk.referred_table]) :
              db[fk.referred_table][j][fk.referred_column] = db[t][i][fk.column]

\* Faulty variant: the offset is dropped from the query.
OffsetLimitNoSkip(seq, skip, limit) == SubSeq(seq, 1, Min(limit, Len(seq)))

\* db.query(model_class).offset(skip).limit(limit).all()
OffsetLimit(seq, skip, limit) == SubSeq(seq, skip + 1, Min(skip + limit, Len(seq)))

\* db.query(model_class).filter_by(**{column: record_id}): the matching positions.
\* .first() takes one of them; without ORDER BY the database chooses which.
Matching(t, column, record_id) == {i \in 1..Len(rows[t]) : rows[t][i][column] = record_id}
FirstChoices(t, column, record_id) ==
    IF Matching(t, column, record_id) = {} THEN {0} ELSE Matching(t, column, record_id)

\* model_class(**item_data) followed by INSERT: absent columns are NULL, an
\* absent autoincrement key takes the counter.
NewRow(t, item_data) ==
    [c \in ColumnSet(t) |->
        IF c \in DOMAIN item_data THEN item_data[c]
        ELSE IF AutoIncrement(t) /\ c = TablePrimaryKey(t)[1] THEN nextId[t]
        ELSE None]

\* Faulty variant: the hasattr test is dropped, every body key is written to the row.
SetAttrsNoCheck(t, row, item_data) ==
    [c \in DOMAIN row \cup DOMAIN item_data |-> IF c \in DOMAIN item_data THEN item_data[c] ELSE row[c]]

\* for key, value in item_data.items(): if hasattr(item, key): setattr(item, key, value)
SetAttrs(t, row, item_data) ==
    [c \in DOMAIN row |-> IF c \in DOMAIN item_data /\ hasattr(t, c) THEN item_data[c] ELSE row[c]]

RemoveAt(seq, i) == SubSeq(seq, 1, i - 1) \o SubSeq(seq, i + 1, Len(seq))

\* --------------------------------------------------- responses, exceptions
\* schemas.py GenericResponse returned from a handler: 200 and the model's fields.
GenericResponse(message, data) ==
    [status |-> 200,
     body |-> [success |-> TRUE, message |-> message, data |-> data, error |-> None]]

\* raise HTTPException(status_code, detail): no exception handler is installed
\* (main.py:21-27), so the framework answers status_code with {"detail": detail}.
HTTPException(status_code, detail) ==
    [status |-> status_code, body |-> [detail |-> detail]]

\* Query(..., ge=, le=) and Dict[str, Any] validation failing: 422, before the handler.
ValidationError == [status |-> 422, body |-> [detail |-> <<"validation error">>]]

\* What a try block ends with: a returned response, a raised HTTPException, or
\* any other raised exception (its text).
Returned(response) == [kind |-> "return", response |-> response]
RaisedHTTP(status_code, detail) == [kind |-> "http", response |-> HTTPException(status_code, detail)]
Raised(text) == [kind |-> "exception", text |-> <<text>>]

\* The result of running a try block: how it ended, the committed rows and the
\* counters it leaves, and the database round trips it made.
Result(out, db, ids, log) == [out |-> out, rows |-> db, nextId |-> ids, log |-> log]
Unchanged(out, log) == Result(out, rows, nextId, log)

\* Each try block takes a fault: the database round trip that raises during the
\* request ("none", "reflect", "inspect_pk", "select", "commit", "refresh",
\* "inspect_columns").

\* ------------------------------------------------------------- try blocks
\* main.py get_table_schema, lines 99-114
SchemaTry(table_name, fault) ==
    IF fault = "inspect_columns" THEN Unchanged(Raised("OperationalError"), <<"inspect">>)
    ELSE Unchanged(Returned(GenericResponse(<<"Schema for table", table_name>>,
            [table_name |-> table_name,
             columns |-> TableColumns(table_name),
             primary_keys |-> TablePrimaryKey(table_name),
             foreign_keys |-> TableForeignKeys(table_name)])), <<"inspect">>)

\* main.py read_items, lines 134-155
ReadItemsTry(table_name, skip, limit, fault) ==
    IF fault = "reflect" THEN Unchanged(Raised("OperationalError"), <<"reflect">>)
    ELSE IF get_model_class(table_name) = {}
    THEN Unchanged(RaisedHTTP(404, <<"Could not load model for table", table_name>>), <<"reflect">>)
    ELSE IF fault = "select" THEN Unchanged(Raised("OperationalError"), <<"reflect", "select">>)
    ELSE IF fault = "inspect_columns"
    THEN Unchanged(Raised("OperationalError"), <<"reflect", "select", "inspect">>)
    ELSE LET items == OffsetLimit(rows[table_name], skip, limit)
             columns == get_table_columns(table_name)
             serialized_items == [i \in 1..Len(items) |-> serialize_row(items[i], columns)]
         IN Unchanged(Returned(GenericResponse(<<"Retrieved records from", Len(items), table_name>>,
                [table |-> table_name, items |-> serialized_items, skip |-> skip, limit |-> limit])),
                <<"reflect", "select", "inspect">>)

\* main.py read_item, lines 175-197; first is the position .first() returns, 0 for no row
ReadItemTry(table_name, record_id, first, fault) ==
    IF fault = "reflect" THEN Unchanged(Raised("OperationalError"), <<"reflect">>)
    ELSE IF get_model_class(table_name) = {}
    THEN Unchanged(RaisedHTTP(404, <<"Could not load model for table", table_name>>), <<"reflect">>)
    ELSE IF fault = "inspect_pk" THEN Unchanged(Raised("OperationalError"), <<"reflect", "inspect">>)
    ELSE IF get_primary_keys(table_name) = <<>>
    THEN Unchanged(RaisedHTTP(400, <<"Table has no primary key", table_name>>), <<"reflect", "inspect">>)
    ELSE IF fault = "select"
    THEN Unchanged(Raised("OperationalError"), <<"reflect", "inspect", "select">>)
    ELSE IF first = 0
    THEN Unchanged(RaisedHTTP(404, <<"Record not found in", table_name, get_primary_keys(table_name)[1], record_id>>),
                   <<"reflect", "inspect", "select">>)
    ELSE IF fault = "inspect_columns"
    THEN Unchanged(Raised("OperationalError"), <<"reflect", "inspect", "select", "inspect">>)
    ELSE Unchanged(Returned(GenericResponse(<<"Retrieved record from", table_name>>,
                serialize_row(rows[table_name][first], get_table_columns(table_name)))),
                <<"reflect", "inspect", "select", "inspect">>)

\* main.py create_item, lines 217-236
CreateTry(table_name, item_data, fault) ==
    IF fault = "reflect" THEN Unchanged(Raised("OperationalError"), <<"reflect">>)
    ELSE IF get_model_class(table_name) = {}
    THEN Unchanged(RaisedHTTP(404, <<"Could not load model for table", table_name>>), <<"reflect">>)
    ELSE IF \E key \in DOMAIN item_data : ~hasattr(table_name, key)
    THEN Unchanged(Raised("TypeError"), <<"reflect">>)        \* model_class(**item_data)
    ELSE
    LET new_item == NewRow(table_name, item_data)
        db == [rows EXCEPT ![table_name] = Append(@, new_item)]
        ids == [nextId EXCEPT ![table_name] =
                   IF AutoIncrement(table_name)
                   THEN Max(@, new_item[TablePrimaryKey(table_name)[1]] + 1) ELSE @]
    IN
    IF fault = "commit"
    THEN Unchanged(Raised("OperationalError"), <<"reflect", "insert", "commit">>)
    ELSE IF ~ConstraintsHold(db)
    THEN Unchanged(Raised("IntegrityError"), <<"reflect", "insert", "commit">>)
    ELSE IF fault = "refresh"
    THEN Result(Raised("OperationalError"), db, ids, <<"reflect", "insert", "commit", "refresh">>)
    ELSE IF fault = "inspect_columns"
    THEN Result(Raised("OperationalError"), db, ids,
                <<"reflect", "insert", "commit", "refresh", "inspect">>)
    ELSE Result(Returned(GenericResponse(<<"Record created in", table_name>>,
                    serialize_row(new_item, get_table_columns(table_name)))),
                db, ids, <<"reflect", "insert", "commit", "refresh", "inspect">>)

\* main.py update_item, lines 258-288
UpdateTry(table_name, record_id, item_data, first, fault) ==
    IF fault = "reflect" THEN Unchanged(Raised("OperationalError"), <<"reflect">>)
    ELSE IF get_model_class(table_name) = {}
    THEN Unchanged(RaisedHTTP(404, <<"Could not load model for table", table_name>>), <<"reflect">>)
    ELSE IF fault = "inspect_pk" THEN Unchanged(Raised("OperationalError"), <<"reflect", "inspect">>)
    ELSE IF get_primary_keys(table_name) = <<>>
    THEN Unchanged(RaisedHTTP(400, <<"Table has no primary key", table_name>>), <<"reflect", "inspect">>)
    ELSE IF fault = "select"
    THEN Unchanged(Raised("OperationalError"), <<"reflect", "inspect", "select">>)
    ELSE IF first = 0
    THEN Unchanged(RaisedHTTP(404, <<"Record not found in", table_name>>),
                   <<"reflect", "inspect", "select">>)
    ELSE
    LET item == SetAttrs(table_name, rows[table_name][first], item_data)
        db == [rows EXCEPT ![table_name][first] = item]
        log == <<"reflect", "inspect", "select", "update", "commit">>
    IN
    IF fault = "commit" THEN Unchanged(Raised("OperationalError"), log)
    ELSE IF ~ConstraintsHold(db) THEN Unchanged(Raised("IntegrityError"), log)
    ELSE IF fault = "refresh"
    THEN Result(Raised("OperationalError"), db, nextId, log \o <<"refresh">>)
    ELSE IF fault = "inspect_columns"
    THEN Result(Raised("OperationalError"), db, nextId, log \o <<"refresh", "inspect">>)
    ELSE Result(Returned(GenericResponse(<<"Record updated in", table_name>>,
                    serialize_row(item, get_table_columns(table_name)))),
                db, nextId, log \o <<"refresh", "inspect">>)

\* main.py delete_item, lines 309-331
DeleteTry(table_name, record_id, first, fault) ==
    IF fault = "reflect" THEN Unchanged(Raised("OperationalError"), <<"reflect">>)
    ELSE IF get_model_class(table_name) = {}
    THEN Unchanged(RaisedHTTP(404, <<"Could not load model for table", table_name>>), <<"reflect">>)
    ELSE IF fault = "inspect_pk" THEN Unchanged(Raised("OperationalError"), <<"reflect", "inspect">>)
    ELSE IF get_primary_keys(table_name) = <<>>
    THEN Unchanged(RaisedHTTP(400, <<"Table has no primary key", table_name>>), <<"reflect", "inspect">>)
    ELSE IF fault = "select"
    THEN Unchanged(Raised("OperationalError"), <<"reflect", "inspect", "select">>)
    ELSE IF first = 0
    THEN Unchanged(RaisedHTTP(404, <<"Record not found in", table_name>>),
                   <<"reflect", "inspect", "select">>)
    ELSE
    LET db == [rows EXCEPT ![table_name] = RemoveAt(@, first)]
        log == <<"reflect", "inspect", "select", "delete", "commit">>
    IN
    IF fault = "commit" THEN Unchanged(Raised("OperationalError"), log)
    ELSE IF ~ConstraintsHold(db) THEN Unchanged(Raised("IntegrityError"), log)
    ELSE Result(Returned(GenericResponse(<<"Record deleted from", table_name>>,
                    [deleted_id |-> record_id])), db, nextId, log)

\* ---------------------------------------------------------- except clauses
\* What a request leaves: its response, the committed rows, the counters, the log.
Done(response, db, ids, log) == [resp |-> response, rows |-> db, nextId |-> ids, log |-> log]

\* main.py get_table_schema, lines 115-116: `except Exception` alone, so an
\* HTTPException raised in the try block would be wrapped as well.
SchemaExcept(r) ==
    IF r.out.kind = "return" THEN Done(r.out.response, r.rows, r.nextId, r.log)
    ELSE Done(HTTPException(500, IF r.out.kind = "exception" THEN r.out.text
                                 ELSE <<r.out.response.body.detail>>),
              r.rows, r.nextId, r.log)

\* Faulty variant: the `except HTTPException: raise` clause is missing.
ReadExceptWrapAll(r) ==
    IF r.out.kind = "return" THEN Done(r.out.response, r.rows, r.nextId, r.log)
    ELSE Done(HTTPException(500, IF r.out.kind = "exception" THEN r.out.text
                                 ELSE <<r.out.response.body.detail>>),
              r.rows, r.nextId, r.log)

\* main.py read_items 156-160, read_item 198-202:
\* except HTTPException: raise / except Exception: HTTPException(500, str(e))
ReadExcept(r) ==
    IF r.out.kind = "exception"
    THEN Done(HTTPException(500, r.out.text), r.rows, r.nextId, r.log)
    ELSE Done(r.out.response, r.rows, r.nextId, r.log)

\* main.py create_item 237-242, update_item 289-294, delete_item 332-337:
\* except HTTPException: raise / except Exception: db.rollback(); HTTPException(400, str(e)).
\* The rollback discards what the session has not committed; r.rows are the
\* committed rows, which it cannot change.
WriteExcept(r) ==
    IF r.out.kind = "exception"
    THEN Done(HTTPException(400, r.out.text), r.rows, r.nextId, r.log \o <<"rollback">>)
    ELSE Done(r.out.response, r.rows, r.nextId, r.log)

\* Faulty variant: the table name is looked up in the live database.
KnownLive(table_name) == table_name \in dbTables

\* `table_name not in AVAILABLE_TABLES`, the first statement of every table handler
Known(table_name) == table_name \in Range(AVAILABLE_TABLES)
TableNotFound(table_name) ==
    Done(HTTPException(404, <<"Table not found", table_name>>), rows, nextId, <<>>)
Rejected == Done(ValidationError, rows, nextId, <<>>)

\* ---------------------------------------------------------------- handlers
\* A query parameter is {} when the request omits it, {v} when it gives v.
Param(q, default) == IF q = {} THEN default ELSE CHOOSE v \in q : TRUE

\* main.py root, lines 73-80
root == Done(GenericResponse(<<"Northwind Microserver API is running">>,
                 [version |-> "1.0.0", tables |-> AVAILABLE_TABLES]), rows, nextId, <<>>)

\* main.py list_tables, lines 83-90
list_tables == Done(GenericResponse(<<"Found tables", Len(AVAILABLE_TABLES)>>,
                        [tables |-> AVAILABLE_TABLES]), rows, nextId, <<>>)

\* main.py get_table_schema, lines 93-116
get_table_schema(table_name, fault) ==
    IF ~Known(table_name) THEN TableNotFound(table_name)
    ELSE SchemaExcept(SchemaTry(table_name, fault))

\* main.py read_items, lines 121-160; Query(0, ge=0) and Query(10, ge=1, le=100)
\* are validated by the framework before the handler body runs.
read_items(table_name, skipQ, limitQ, fault) ==
    LET skip == Param(skipQ, SkipDefault)
        limit == Param(limitQ, LimitDefault)
    IN IF skip < SkipMin \/ limit < LimitMin \/ limit > LimitMax THEN Rejected
       ELSE IF ~Known(table_name) THEN TableNotFound(table_name)
       ELSE ReadExcept(ReadItemsTry(table_name, skip, limit, fault))

\* main.py read_item, lines 163-202
read_item(table_name, record_id, first, fault) ==
    IF ~Known(table_name) THEN TableNotFound(table_name)
    ELSE ReadExcept(ReadItemTry(table_name, record_id, first, fault))

\* main.py create_item, lines 205-242; item_data: Dict[str, Any] is validated by
\* the framework before the handler body runs (body_ok: the body is a JSON object).
create_item(table_name, body_ok, item_data, fault) ==
    IF ~body_ok THEN Rejected
    ELSE IF ~Known(table_name) THEN TableNotFound(table_name)
    ELSE WriteExcept(CreateTry(table_name, item_data, fault))

\* main.py update_item, lines 245-294
update_item(table_name, record_id, body_ok, item_data, first, fault) ==
    IF ~body_ok THEN Rejected
    ELSE IF ~Known(table_name) THEN TableNotFound(table_name)
    ELSE WriteExcept(UpdateTry(table_name, record_id, item_data, first, fault))

\* main.py delete_item, lines 297-337
delete_item(table_name, record_id, first, fault) ==
    IF ~Known(table_name) THEN TableNotFound(table_name)
    ELSE WriteExcept(DeleteTry(table_name, record_id, first, fault))

\* ---------------------------------------------------------------- requests
EmptyBody == [k \in {} |-> None]
NoParam == {}

Request(op, table_name, record_id, skipQ, limitQ, body_ok, item_data) ==
    [op |-> op, table_name |-> table_name, record_id |-> record_id,
     skip |-> skipQ, limit |-> limitQ, body_ok |-> body_ok, item_data |-> item_data]

NoRequest == Request("none", "", None, NoParam, NoParam, TRUE, EmptyBody)

\* The (skip, limit) query strings tried: defaults, both range ends, one step
\* outside; on the tables that are never listed, the defaults and one rejected.
PageInputs ==
    {<<{}, {}>>, <<{}, {1}>>, <<{1}, {100}>>, <<{-1}, {}>>, <<{}, {0}>>, <<{}, {101}>>}
Pages(t) == IF t = "products" THEN PageInputs ELSE {<<{}, {}>>, <<{}, {0}>>}

\* The record ids tried: every id on the tables that hold addressable rows, one
\* id on the others.
Ids(t) == IF t \in {"products", "order_details"} THEN RecordIds ELSE {1}

\* The request bodies tried on a table: its columns, a key that is no attribute
\* ("bogus"), and a class attribute that is no column ("metadata"); a body that
\* is no JSON object is tried on one discovered and one undiscovered table.
Bodies(t) ==
    CASE t = "products" ->
           {EmptyBody, [name |-> 1], [name |-> 1, bogus |-> 1], [metadata |-> 1]}
      [] t = "order_details" ->
           {[order_id |-> 1, product_id |-> v] : v \in Vals} \cup {[product_id |-> 2]}
      [] OTHER -> {EmptyBody}
BodyOks(t) == IF t \in {"products", "shippers"} THEN BOOLEAN ELSE {TRUE}

\* The positions .first() may return for filter_by(<first primary-key column> = record_id).
First(t, record_id) ==
    IF TablePrimaryKey(t) = <<>> THEN {0} ELSE FirstChoices(t, TablePrimaryKey(t)[1], record_id)

Answer(result, request) ==
    /\ \E r \in {result} :
         /\ resp' = r.resp
         /\ rows' = r.rows
         /\ nextId' = r.nextId
         /\ dbLog' = r.log
    /\ req' = request
    /\ UNCHANGED <<AVAILABLE_TABLES, started, startupFailed, dbTables>>

\* ----------------------------------------------------------------- actions
Serving == started

\* Faulty variant: the table list is filled although discovery raised.
StartupEager ==
    /\ ~started
    /\ \E ok \in BOOLEAN :
         /\ AVAILABLE_TABLES' = get_all_tables
         /\ startupFailed' = ~ok
    /\ started' = TRUE
    /\ UNCHANGED <<dbTables, rows, nextId, req, resp, dbLog>>

\* main.py startup_event, lines 61-70: get_all_tables() may raise; the except
\* clause logs and leaves AVAILABLE_TABLES as it is.
Startup ==
    /\ ~started
    /\ \E ok \in BOOLEAN :
         /\ AVAILABLE_TABLES' = IF ok THEN get_all_tables ELSE AVAILABLE_TABLES
         /\ startupFailed' = ~ok
    /\ started' = TRUE
    /\ UNCHANGED <<dbTables, rows, nextId, req, resp, dbLog>>

\* Environment: a table is created in the database after the startup event.
AddTable ==
    /\ started
    /\ "shippers" \notin dbTables
    /\ dbTables' = dbTables \cup {"shippers"}
    /\ UNCHANGED <<AVAILABLE_TABLES, started, startupFailed, rows, nextId, req, resp, dbLog>>

GetRoot ==
    /\ Serving
    /\ Answer(root, Request("root", "", None, NoParam, NoParam, TRUE, EmptyBody))

ListTables ==
    /\ Serving
    /\ Answer(list_tables, Request("list_tables", "", None, NoParam, NoParam, TRUE, EmptyBody))

GetTableSchema ==
    /\ Serving
    /\ \E t \in TableNames, fault \in {"none", "inspect_columns"} :
         Answer(get_table_schema(t, fault),
                Request("get_table_schema", t, None, NoParam, NoParam, TRUE, EmptyBody))

ReadItems ==
    /\ Serving
    /\ \E t \in TableNames, fault \in {"none", "select"} : \E page \in Pages(t) :
         Answer(read_items(t, page[1], page[2], fault),
                Request("read_items", t, None, page[1], page[2], TRUE, EmptyBody))

ReadItem ==
    /\ Serving
    /\ \E t \in TableNames, fault \in {"none", "inspect_pk"} :
         \E record_id \in Ids(t) : \E first \in First(t, record_id) :
           Answer(read_item(t, record_id, first, fault),
                  Request("read_item", t, record_id, NoParam, NoParam, TRUE, EmptyBody))

CreateItem ==
    /\ Serving
    /\ \E t \in TableNames : \E body_ok \in BodyOks(t) :
         /\ Len(rows[t]) < MaxRows
         /\ nextId[t] <= MaxId
         /\ \E item_data \in (IF body_ok THEN Bodies(t) ELSE {EmptyBody}),
               fault \in {"none", "refresh"} :
              Answer(create_item(t, body_ok, item_data, fault),
                     Request("create_item", t, None, NoParam, NoParam, body_ok, item_data))

UpdateItem ==
    /\ Serving
    /\ \E t \in TableNames : \E record_id \in Ids(t), body_ok \in BodyOks(t) :
         \E item_data \in (IF body_ok THEN Bodies(t) ELSE {EmptyBody}),
            first \in First(t, record_id), fault \in {"none", "inspect_columns"} :
              Answer(update_item(t, record_id, body_ok, item_data, first, fault),
                     Request("update_item", t, record_id, NoParam, NoParam, body_ok, item_data))

DeleteItem ==
    /\ Serving
    /\ \E t \in TableNames, fault \in {"none", "reflect"} :
         \E record_id \in Ids(t) : \E first \in First(t, record_id) :
           Answer(delete_item(t, record_id, first, fault),
                  Request("delete_item", t, record_id, NoParam, NoParam, TRUE, EmptyBody))

\* ------------------------------------------------------------ specification
\* The database as the server finds it: empty tables, or one product with one
\* order line; the table without primary key holds one row either way.
NoRows == [t \in TableNames |-> IF t = "audit_log" THEN <<[msg |-> 1]>> ELSE <<>>]
SeedRows == [NoRows EXCEPT !["products"] = <<[id |-> 1, name |-> 1]>>,
                           !["order_details"] = <<[order_id |-> 1, product_id |-> 1]>>]

Init ==
    /\ AVAILABLE_TABLES = <<>>
    /\ started = FALSE
    /\ startupFailed = FALSE
    /\ dbTables = BaseTables
    /\ rows \in {NoRows, SeedRows}
    /\ nextId = [t \in TableNames |-> IF Len(rows[t]) > 0 /\ AutoIncrement(t) THEN 2 ELSE 1]
    /\ req = NoRequest
    /\ resp = HTTPException(0, <<>>)
    /\ dbLog = <<>>

Next ==
    \/ Startup
    \/ AddTable
    \/ GetRoot
    \/ ListTables
    \/ GetTableSchema
    \/ ReadItems
    \/ ReadItem
    \/ CreateItem
    \/ UpdateItem
    \/ DeleteItem

Spec == Init /\ [][Next]_vars

\* ------------------------------------------------------------------ claims
TableOps == {"get_table_schema", "read_items", "read_item", "create_item", "update_item", "delete_item"}
WriteOps == {"create_item", "update_item", "delete_item"}
IdOps == {"read_item", "update_item", "delete_item"}

\* The request names a table that is not in the discovered list.
UnknownTable == req.op \in TableOps /\ req.table_name \notin Range(AVAILABLE_TABLES)

\* The request passes the framework's validation of query parameters and body.
PassesValidation(r) ==
    /\ r.body_ok
    /\ \A v \in r.skip : v >= 0
    /\ \A v \in r.limit : v >= 1 /\ v <= 100

\* The response reports a database round trip that raised.
DbFailure(r) == r.status \in {400, 500} /\ r.body.detail = <<"OperationalError">>

IsEnvelope(body) == DOMAIN body = {"success", "message", "data", "error"}

\* C1 as stated: a request naming an unknown table is answered 404 whatever its
\* other inputs are, and makes no database round trip.
C1_UnknownTableAlways404 ==
    UnknownTable => resp.status = 404 /\ dbLog = <<>>

\* C1 amended: a request naming an unknown table makes no database round trip
\* and is answered 404 "table not found" when it passes validation (skip >= 0,
\* 1 <= limit <= 100, body a JSON object), 422 when it does not.
C1_UnknownTable404 ==
    UnknownTable =>
        /\ dbLog = <<>>
        /\ IF PassesValidation(req)
           THEN resp = HTTPException(404, <<"Table not found", req.table_name>>)
           ELSE resp.status = 422

C1_Witness ==
    /\ UnknownTable
    /\ req.op = "create_item" /\ req.body_ok /\ req.table_name \in dbTables
    /\ resp.status = 404

\* C2: every response has the envelope shape {success, message, data, error},
\* and a failure response carries success = false.
C2_EnvelopeEverywhere ==
    req.op # "none" =>
        /\ IsEnvelope(resp.body)
        /\ (resp.status # 200 => resp.body.success = FALSE)

\* C3: a create, update or delete request that ends with an error response
\* leaves the stored rows of every table as they were before the request.
C3_ErrorLeavesRows ==
    [][(req'.op \in WriteOps /\ resp'.status # 200) => rows' = rows]_vars

\* C4: after a successful delete of record id r, a get-record request for the
\* same table and id that follows it is answered 404 (a database failure aside).
C4_DeleteThenGet404 ==
    [][(/\ req.op = "delete_item" /\ resp.status = 200
        /\ req'.op = "read_item"
        /\ req'.table_name = req.table_name /\ req'.record_id = req.record_id
        /\ ~DbFailure(resp'))
       => resp'.status = 404]_vars

C6_CreateThenGet ==
    [][(/\ req.op = "create_item" /\ resp.status = 200
        /\ req'.op = "read_item"
        /\ req'.table_name = req.table_name
        /\ req'.record_id = resp.body.data[TablePrimaryKey(req.table_name)[1]]
        /\ ~DbFailure(resp'))
       => (resp'.status = 200 /\ resp'.body.data = resp.body.data)]_vars

C8_FailedStartupAlways404 ==
    startupFailed =>
        /\ AVAILABLE_TABLES = <<>>
        /\ req.op \in TableOps => resp = HTTPException(404, <<"Table not found", req.table_name>>)
        /\ req.op \in {"root", "list_tables"} => resp.status = 200 /\ resp.body.data.tables = <<>>

\* C8 amended: as stated, for the requests that pass validation; a request that
\* fails validation is answered 422.  No request reaches the database, whose
\* tables (the one created after startup included) keep their rows.
C8_FailedStartup ==
    startupFailed =>
        /\ AVAILABLE_TABLES = <<>>
        /\ req.op \in TableOps =>
             IF PassesValidation(req)
             THEN resp = HTTPException(404, <<"Table not found", req.table_name>>)
             ELSE resp.status = 422
        /\ req.op \in {"root", "list_tables"} => resp.status = 200 /\ resp.body.data.tables = <<>>
        /\ dbLog = <<>>
        /\ rows \in {NoRows, SeedRows}

C8_Witness ==
    /\ startupFailed
    /\ "shippers" \in dbTables /\ rows["products"] # <<>>
    /\ req.op = "read_item" /\ req.table_name = "products"
    /\ resp.status = 404

\* C9: for a discovered table without primary key, get record, update record and
\* delete record are answered 400 (a request failing validation or a database
\* failure aside).
C9_NoPrimaryKey400 ==
    (/\ req.op \in IdOps
     /\ req.table_name \in Range(AVAILABLE_TABLES)
     /\ TablePrimaryKey(req.table_name) = <<>>
     /\ PassesValidation(req)
     /\ ~DbFailure(resp))
    => resp.status = 400

\* C10: an error classified inside a handler reaches the client with its own
\* status and detail; any other exception is answered 500 by the schema,
\* list-records and get-record handlers and 400 by the create, update and delete
\* handlers, which never answer 500.
C10_ErrorMapping ==
    (req.op \in TableOps /\ resp.status \notin {200, 422}) =>
        LET t == req.table_name
        IN /\ req.op \in WriteOps => resp.status # 500
           /\ \/ resp = HTTPException(404, <<"Table not found", t>>)
              \/ resp = HTTPException(404, <<"Could not load model for table", t>>)
              \/ resp = HTTPException(400, <<"Table has no primary key", t>>)
              \/ /\ req.op \in {"update_item", "delete_item"}
                 /\ resp = HTTPException(404, <<"Record not found in", t>>)
              \/ /\ req.op = "read_item" /\ TablePrimaryKey(t) # <<>>
                 /\ resp = HTTPException(404, <<"Record not found in", t, TablePrimaryKey(t)[1], req.record_id>>)
              \/ /\ resp.status = (IF req.op \in WriteOps THEN 400 ELSE 500)
                 /\ \/ resp.body.detail = <<"OperationalError">>
                    \/ resp.body.detail = <<"TypeError">>
                    \/ resp.body.detail = <<"IntegrityError">>

C10_Witness ==
    /\ req.op = "update_item"
    /\ resp = HTTPException(404, <<"Record not found in", req.table_name>>)
    /\ dbLog = <<"reflect", "inspect", "select">>

====
